---- MODULE Spec2Model ----
(***************************************************************************)
(* Model of the picserver micro-service (src/main.cpp): one                *)
(* MyRequestHandler per request, several requests handled concurrently by  *)
(* the HTTP server's worker threads.  Shared between the handlers: the     *)
(* /tmp directory, the exempi library's init/terminate state and the       *)
(* serving process itself.                                                  *)
(*                                                                         *)
(* Characters are their ASCII codes; strings handled character by          *)
(* character in the code (path segments, property values) are sequences of *)
(* codes.  A request body is a sequence of bytes; libexempi reads byte 1   *)
(* as the container format and byte 2 as the embedded XMP packet.          *)
(***************************************************************************)
EXTENDS Integers, Sequences, FiniteSets, TLC

\* ------------------------------------------------------------------ bounds
MaxRequests == 2
NumNames == 2

Threads == {"w1", "w2"}
Names == 1..NumNames

\* --------------------------------------------------------------- constants
maxImageSize == 134217728
maxFilenameSize == 64
UNKNOWN_CONTENT_LENGTH == -1
EOF == -1
XMP_FT_JPEG == 1
XMP_FT_PNG == 2
XMP_FT_UNKNOWN == 0

FormUrlEncoded == "application/x-www-form-urlencoded"
MultipartFormData == "multipart/form-data"

NoFile == <<EOF>>
NoName == 0

\* ------------------------------------------------------- character helpers
isalpha(c) == (c >= 65 /\ c <= 90) \/ (c >= 97 /\ c <= 122)
isdigit(c) == c >= 48 /\ c <= 57

\* sanitized with every code from 'A' to 'z' taken for a letter
sanitizedAlphaRange(path) ==
    \A i \in 1..Len(path) :
        ~(~(path[i] >= 65 /\ path[i] <= 122) /\ ~isdigit(path[i])
            /\ path[i] # 95 /\ path[i] # 45 /\ path[i] # 46)

sanitized(path) ==
    \A i \in 1..Len(path) :
        ~(~isalpha(path[i]) /\ ~isdigit(path[i])
            /\ path[i] # 95 /\ path[i] # 45 /\ path[i] # 46)

\* the character at 0-based offset i of a NUL-terminated C string
CStrAt(s, i) == IF i < Len(s) THEN s[i + 1] ELSE 0

\* strncmp(a, b, n) = 0
RECURSIVE StrnEqFrom(_, _, _, _)
StrnEqFrom(a, b, i, n) ==
    IF i >= n THEN TRUE
    ELSE IF CStrAt(a, i) # CStrAt(b, i) THEN FALSE
    ELSE IF CStrAt(a, i) = 0 THEN TRUE
    ELSE StrnEqFrom(a, b, i + 1, n)

strncmpIsZero(a, b, n) == StrnEqFrom(a, b, 0, n)

AdobePhotoshopPrefix ==
    <<65, 100, 111, 98, 101, 32, 80, 104, 111, 116, 111, 115, 104, 111, 112, 32>>

\* ----------------------------------------------------------- XMP fixtures
Date(y, mo, d, h, mi, s, tz, ns) ==
    [year |-> y, month |-> mo, day |-> d, hour |-> h, minute |-> mi,
     second |-> s, tzSign |-> tz, tzHour |-> 0, tzMinute |-> 0, nanoSecond |-> ns]

\* packet 1: CreatorTool "Adobe Photoshop 24.0", equal dates
\* packet 2: no CreatorTool, dates one second apart
XmpPacket(b) ==
    IF b = 1
    THEN [creatorFound |-> TRUE,
          creatorTool |-> AdobePhotoshopPrefix \o <<50, 52, 46, 48>>,
          createFound |-> TRUE, created |-> Date(2021, 3, 4, 5, 6, 7, 0, 0),
          modifyFound |-> TRUE, modified |-> Date(2021, 3, 4, 5, 6, 7, 1, 9)]
    ELSE [creatorFound |-> FALSE,
          creatorTool |-> <<>>,
          createFound |-> TRUE, created |-> Date(2021, 3, 4, 5, 6, 7, 0, 0),
          modifyFound |-> TRUE, modified |-> Date(2021, 3, 4, 5, 6, 8, 0, 0)]

\* is_creator_photoshop comparing one character less
is_creator_photoshop15(xmp) ==
    xmp.creatorFound /\ strncmpIsZero(xmp.creatorTool, AdobePhotoshopPrefix, 15)

is_creator_photoshop(xmp) ==
    xmp.creatorFound /\ strncmpIsZero(xmp.creatorTool, AdobePhotoshopPrefix, 16)

\* is_modifiedDate_dissimilar without the comparison of the seconds
is_modifiedDate_dissimilarNoSecond(xmp) ==
    IF ~xmp.createFound THEN FALSE
    ELSE IF ~xmp.modifyFound THEN FALSE
    ELSE ~(xmp.created.year = xmp.modified.year
            /\ xmp.created.month = xmp.modified.month
            /\ xmp.created.day = xmp.modified.day
            /\ xmp.created.hour = xmp.modified.hour
            /\ xmp.created.minute = xmp.modified.minute)

is_modifiedDate_dissimilar(xmp) ==
    IF ~xmp.createFound THEN FALSE
    ELSE IF ~xmp.modifyFound THEN FALSE
    ELSE ~(xmp.created.year = xmp.modified.year
            /\ xmp.created.month = xmp.modified.month
            /\ xmp.created.day = xmp.modified.day
            /\ xmp.created.hour = xmp.modified.hour
            /\ xmp.created.minute = xmp.modified.minute
            /\ xmp.created.second = xmp.modified.second)

\* --------------------------------------------------------------- requests
NameOk == <<97, 46, 106, 112, 103>>
NameBadChar == <<97, 32, 98>>
NameTooLong == [i \in 1..(maxFilenameSize + 1) |-> 97]

PathSegmentSets ==
    { <<>>, <<NameOk>>, <<NameBadChar>>, <<NameTooLong>>, <<NameOk, NameOk>> }

ContentLengths == { UNKNOWN_CONTENT_LENGTH, maxImageSize, maxImageSize + 1 }

ContentTypes == { FormUrlEncoded, MultipartFormData }

\* the bytes request.stream() delivers before EOF
Streams == { <<XMP_FT_JPEG>>, <<XMP_FT_JPEG, 1>>, <<XMP_FT_PNG, 2>> }

Requests ==
    [segments : PathSegmentSets, contentLength : ContentLengths,
     contentType : ContentTypes]

NoRequest ==
    [segments |-> <<>>, contentLength |-> UNKNOWN_CONTENT_LENGTH, contentType |-> ""]

\* validateRequest with the size ceiling left out (only the unknown length
\* is refused)
validateRequestNoCeiling(request, basename) ==
    IF Len(request.segments) # 1
    THEN [result |-> FALSE, basename |-> basename]
    ELSE IF ~sanitized(request.segments[1])
    THEN [result |-> FALSE, basename |-> basename]
    ELSE IF Len(request.segments[1]) > maxFilenameSize
    THEN [result |-> FALSE, basename |-> basename]
    ELSE IF request.contentLength = UNKNOWN_CONTENT_LENGTH
    THEN [result |-> FALSE, basename |-> request.segments[1]]
    ELSE IF request.contentType # FormUrlEncoded
    THEN [result |-> FALSE, basename |-> request.segments[1]]
    ELSE [result |-> TRUE, basename |-> request.segments[1]]

\* validateRequest with the name-length test left out
validateRequestNoLength(request, basename) ==
    IF Len(request.segments) # 1
    THEN [result |-> FALSE, basename |-> basename]
    ELSE IF ~sanitized(request.segments[1])
    THEN [result |-> FALSE, basename |-> basename]
    ELSE IF request.contentLength = UNKNOWN_CONTENT_LENGTH
            \/ request.contentLength > maxImageSize
    THEN [result |-> FALSE, basename |-> request.segments[1]]
    ELSE IF request.contentType # FormUrlEncoded
    THEN [result |-> FALSE, basename |-> request.segments[1]]
    ELSE [result |-> TRUE, basename |-> request.segments[1]]

\* validateRequest refusing the ceiling itself (>= for >)
validateRequestCeilingExclusive(request, basename) ==
    IF Len(request.segments) # 1
    THEN [result |-> FALSE, basename |-> basename]
    ELSE IF ~sanitized(request.segments[1])
    THEN [result |-> FALSE, basename |-> basename]
    ELSE IF Len(request.segments[1]) > maxFilenameSize
    THEN [result |-> FALSE, basename |-> basename]
    ELSE IF request.contentLength = UNKNOWN_CONTENT_LENGTH
            \/ request.contentLength >= maxImageSize
    THEN [result |-> FALSE, basename |-> request.segments[1]]
    ELSE IF request.contentType # FormUrlEncoded
    THEN [result |-> FALSE, basename |-> request.segments[1]]
    ELSE [result |-> TRUE, basename |-> request.segments[1]]

\* validateRequest: the return value and the _basename it leaves behind
validateRequest(request, basename) ==
    IF Len(request.segments) # 1
    THEN [result |-> FALSE, basename |-> basename]
    ELSE IF ~sanitized(request.segments[1])
    THEN [result |-> FALSE, basename |-> basename]
    ELSE IF Len(request.segments[1]) > maxFilenameSize
    THEN [result |-> FALSE, basename |-> basename]
    ELSE IF request.contentLength = UNKNOWN_CONTENT_LENGTH
            \/ request.contentLength > maxImageSize
    THEN [result |-> FALSE, basename |-> request.segments[1]]
    ELSE IF request.contentType # FormUrlEncoded
    THEN [result |-> FALSE, basename |-> request.segments[1]]
    ELSE [result |-> TRUE, basename |-> request.segments[1]]


\* ------------------------------------------------------------ JSON object
\* Poco::JSON::Object with JSON_PRESERVE_KEY_ORDER: a list of <<key, value>>
\* entries; a value is a list of output tokens.
HasKey(o, k) == \E i \in 1..Len(o) : o[i][1] = k

Set(o, k, v) ==
    IF HasKey(o, k)
    THEN [i \in 1..Len(o) |-> IF o[i][1] = k THEN <<k, v>> ELSE o[i]]
    ELSE Append(o, <<k, v>>)

CharStr(c) ==
    CASE c = 97 -> "a" [] c = 98 -> "b" [] c = 103 -> "g" [] c = 106 -> "j"
      [] c = 112 -> "p" [] c = 46 -> "." [] c = 45 -> "-" [] c = 95 -> "_"
      [] OTHER -> "?"

RECURSIVE ToStr(_)
ToStr(s) == IF s = <<>> THEN "" ELSE CharStr(Head(s)) \o ToStr(Tail(s))

Quote(str) == "\"" \o str \o "\""

BoolValue(b) == << IF b THEN "true" ELSE "false" >>
StringValue(s) == << Quote(ToStr(s)) >>

\* Object::stringify: the token sequence of the JSON text
RECURSIVE StringifyEntries(_)
StringifyEntries(o) ==
    IF o = <<>> THEN <<>>
    ELSE << Quote(o[1][1]), ":" >> \o o[1][2]
            \o (IF Len(o) > 1 THEN <<",">> ELSE <<>>)
            \o StringifyEntries(Tail(o))

stringify(o) == <<"{">> \o StringifyEntries(o) \o <<"}">>

ObjectValue(o) == stringify(o)

\* ------------------------------------------------------------- file system
\* fwrite of the buffered bytes at offset 0 of a file that holds `old`
Overlay(bytes, old) ==
    IF Len(old) > Len(bytes)
    THEN bytes \o SubSeq(old, Len(bytes) + 1, Len(old))
    ELSE bytes

\* libexempi's view of a file's bytes
FileType(data) ==
    IF Len(data) >= 1 /\ data[1] \in {XMP_FT_JPEG, XMP_FT_PNG} THEN data[1]
    ELSE XMP_FT_UNKNOWN

HasXmpPacket(data) == Len(data) >= 2

\* ------------------------------------------------------------------- state
VARIABLES
    pc,          \* per worker: position in handleRequest
    request,     \* per worker: the HTTPServerRequest being handled
    basename,    \* per worker: MyRequestHandler::_basename
    obj,         \* per worker: the response JSON object
    tests,       \* per worker: the tests JSON object
    tmpfile,     \* per worker: the name left in tmpfile by mktemp, NoName when empty
    tf,          \* per worker: the FILE* returned by fopen
    xf,          \* per worker: the XmpFilePtr
    xmp,         \* per worker: the XmpPtr
    response,    \* per worker: what response.send() carried
    fs,          \* /tmp: file name -> bytes, or NoFile
    staged,      \* per worker: the file this request created in /tmp, NoName when none
    received,    \* per worker: the bytes read from request.stream() so far
    inits,       \* per worker: xmp_init calls made by this request
    terms,       \* per worker: xmp_terminate calls made by this request
    initCalls,   \* calls of xmp_init so far
    termCalls,   \* calls of xmp_terminate so far
    crashed,     \* the serving process has died
    started,     \* requests accepted by the server so far
    trace,       \* per worker: the calls this request's handler has made, in order
    probe        \* the last direct call of a helper function: its input and result

vars == <<pc, request, basename, obj, tests, tmpfile, tf, xf, xmp, response,
          fs, staged, received, inits, terms, initCalls, termCalls, crashed, started,
          trace, probe>>

NoProbe == [op |-> "none"]

NoFileHandle == [state |-> "none", data |-> <<>>]
NoXmpHandle == [state |-> "none", packet |-> 0]
NoResponse == [sent |-> FALSE, status |-> 0, contentType |-> "", body |-> <<>>]

Init ==
    /\ pc = [t \in Threads |-> "idle"]
    /\ request = [t \in Threads |-> NoRequest]
    /\ basename = [t \in Threads |-> <<>>]
    /\ obj = [t \in Threads |-> <<>>]
    /\ tests = [t \in Threads |-> <<>>]
    /\ tmpfile = [t \in Threads |-> NoName]
    /\ tf = [t \in Threads |-> "none"]
    /\ xf = [t \in Threads |-> NoFileHandle]
    /\ xmp = [t \in Threads |-> NoXmpHandle]
    /\ response = [t \in Threads |-> NoResponse]
    /\ fs = [n \in Names |-> NoFile]
    /\ staged = [t \in Threads |-> NoName]
    /\ received = [t \in Threads |-> <<>>]
    /\ inits = [t \in Threads |-> 0]
    /\ terms = [t \in Threads |-> 0]
    /\ initCalls = 0
    /\ termCalls = 0
    /\ crashed = FALSE
    /\ started = 0
    /\ trace = [t \in Threads |-> <<>>]
    /\ probe = NoProbe


\* ----------------------------------------------------------------- actions
\* the name key set as soon as _basename is, before the validation branch
BeginObjNameEarly(v) ==
    IF v.basename # <<>>
    THEN Set(Set(<<>>, "is_valid", BoolValue(FALSE)), "name", StringValue(v.basename))
    ELSE Set(<<>>, "is_valid", BoolValue(FALSE))

BeginObj(v) ==
    IF v.result
    THEN Set(Set(<<>>, "is_valid", BoolValue(FALSE)), "name", StringValue(v.basename))
    ELSE Set(<<>>, "is_valid", BoolValue(FALSE))

\* createRequestHandler and handleRequest up to the validation branch:
\* a fresh handler (empty _basename), is_valid false, the response headers,
\* validateRequest, and on success the name key.
Begin(t) ==
    /\ ~crashed
    /\ pc[t] \in {"idle", "done"}
    /\ started < MaxRequests
    /\ \E r \in Requests :
        LET v == validateRequest(r, <<>>) IN
        /\ request' = [request EXCEPT ![t] = r]
        /\ basename' = [basename EXCEPT ![t] = v.basename]
        /\ obj' = [obj EXCEPT ![t] = BeginObj(v)]
        /\ pc' = [pc EXCEPT ![t] = IF v.result THEN "mktemp" ELSE "respond"]
    /\ tests' = [tests EXCEPT ![t] = <<>>]
    /\ tmpfile' = [tmpfile EXCEPT ![t] = NoName]
    /\ tf' = [tf EXCEPT ![t] = "none"]
    /\ xf' = [xf EXCEPT ![t] = NoFileHandle]
    /\ xmp' = [xmp EXCEPT ![t] = NoXmpHandle]
    /\ staged' = [staged EXCEPT ![t] = NoName]
    /\ received' = [received EXCEPT ![t] = <<>>]
    /\ inits' = [inits EXCEPT ![t] = 0]
    /\ terms' = [terms EXCEPT ![t] = 0]
    /\ response' = [response EXCEPT ![t] =
            [sent |-> FALSE, status |-> 200, contentType |-> "application/json",
             body |-> <<>>]]
    /\ started' = started + 1
    /\ trace' = [trace EXCEPT ![t] = <<"validateRequest">>]
    /\ UNCHANGED <<fs, initCalls, termCalls, crashed, probe>>

\* mktemp: a name no file has at this moment
MktempOk(t) ==
    /\ ~crashed
    /\ pc[t] = "mktemp"
    /\ \E n \in Names :
        /\ fs[n] = NoFile
        /\ tmpfile' = [tmpfile EXCEPT ![t] = n]
    /\ pc' = [pc EXCEPT ![t] = "fopen"]
    /\ trace' = [trace EXCEPT ![t] = Append(@, "mktemp")]
    /\ UNCHANGED <<request, basename, obj, tests, tf, xf, xmp, response, fs,
                   staged, initCalls, termCalls, crashed, started, received, inits, terms, probe>>

\* mktemp: every name it tried exists; tmpfile is left empty and the
\* handler breaks out
MktempFail(t) ==
    /\ ~crashed
    /\ pc[t] = "mktemp"
    /\ \E n \in Names : fs[n] # NoFile
    /\ tmpfile' = [tmpfile EXCEPT ![t] = NoName]
    /\ pc' = [pc EXCEPT ![t] = "respond"]
    /\ trace' = [trace EXCEPT ![t] = Append(@, "mktemp")]
    /\ UNCHANGED <<request, basename, obj, tests, tf, xf, xmp, response, fs,
                   staged, initCalls, termCalls, crashed, started, received, inits, terms, probe>>

\* fopen(tmpfile, "wb"): creates or truncates the file, or returns NULL
Fopen(t) ==
    /\ ~crashed
    /\ pc[t] = "fopen"
    /\ \E ok \in BOOLEAN :
        IF ok
        THEN /\ fs' = [fs EXCEPT ![tmpfile[t]] = <<>>]
             /\ tf' = [tf EXCEPT ![t] = "open"]
             /\ staged' = [staged EXCEPT ![t] = tmpfile[t]]
        ELSE /\ tf' = [tf EXCEPT ![t] = "null"]
             /\ UNCHANGED <<fs, staged>>
    /\ pc' = [pc EXCEPT ![t] = "stage"]
    /\ trace' = [trace EXCEPT ![t] = Append(@, "fopen")]
    /\ UNCHANGED <<request, basename, obj, tests, tmpfile, xf, xmp, response,
                   initCalls, termCalls, crashed, started, received, inits, terms, probe>>

\* the copy loop and fclose on an open stream
Stage(t) ==
    /\ ~crashed
    /\ pc[t] = "stage"
    /\ tf[t] = "open"
    /\ \E bytes \in Streams :
        /\ received' = [received EXCEPT ![t] = bytes]
        /\ fs' = [fs EXCEPT ![tmpfile[t]] = Overlay(bytes, fs[tmpfile[t]])]
    /\ tf' = [tf EXCEPT ![t] = "closed"]
    /\ pc' = [pc EXCEPT ![t] = "extract"]
    /\ trace' = [trace EXCEPT ![t] = Append(@, "fclose")]
    /\ UNCHANGED <<request, basename, obj, tests, tmpfile, xf, xmp, response,
                   staged, initCalls, termCalls, crashed, started, inits, terms, probe>>

\* the copy loop and fclose on a NULL stream: undefined behaviour, the
\* process dies or the calls return and the handler goes on
StageNull(t) ==
    /\ ~crashed
    /\ pc[t] = "stage"
    /\ tf[t] = "null"
    /\ \E dies \in BOOLEAN :
        IF dies
        THEN /\ crashed' = TRUE
             /\ UNCHANGED <<pc, received, trace>>
        ELSE /\ pc' = [pc EXCEPT ![t] = "extract"]
             /\ \E bytes \in Streams : received' = [received EXCEPT ![t] = bytes]
             /\ trace' = [trace EXCEPT ![t] = Append(@, "fclose")]
             /\ UNCHANGED crashed
    /\ UNCHANGED <<request, basename, obj, tests, tmpfile, tf, xf, xmp, response,
                   fs, staged, initCalls, termCalls, started, inits, terms, probe>>

\* the extractor calls with a second xmp_files_open_new after a failed one
ExtractCallsRetry(opened, parsed) ==
    IF ~opened THEN <<"xmp_init", "xmp_files_open_new", "xmp_files_open_new">>
    ELSE IF ~parsed
    THEN <<"xmp_init", "xmp_files_open_new", "xmp_files_get_new_xmp", "xmp_files_free">>
    ELSE <<"xmp_init", "xmp_files_open_new", "xmp_files_get_new_xmp">>

\* the calls made from xmp_init to the metadata test, by outcome
ExtractCalls(opened, parsed) ==
    IF ~opened THEN <<"xmp_init", "xmp_files_open_new">>
    ELSE IF ~parsed
    THEN <<"xmp_init", "xmp_files_open_new", "xmp_files_get_new_xmp", "xmp_files_free">>
    ELSE <<"xmp_init", "xmp_files_open_new", "xmp_files_get_new_xmp">>

\* xmp_init, xmp_files_open_new and xmp_files_get_new_xmp.
\* xmp_files_open_new returns NULL when the file is missing or resources are
\* short, otherwise a handle on the bytes the file holds now;
\* xmp_files_get_new_xmp returns NULL on a missing or malformed packet or on
\* low resources, and then the handler calls xmp_files_free(xf).
Extract(t) ==
    /\ ~crashed
    /\ pc[t] = "extract"
    /\ initCalls' = initCalls + 1
    /\ inits' = [inits EXCEPT ![t] = @ + 1]
    /\ \E opened, parsed \in BOOLEAN :
        /\ trace' = [trace EXCEPT ![t] =
                @ \o ExtractCalls(opened /\ fs[tmpfile[t]] # NoFile,
                                  parsed /\ HasXmpPacket(fs[tmpfile[t]]))]
        /\ IF ~(opened /\ fs[tmpfile[t]] # NoFile)
           THEN /\ xf' = [xf EXCEPT ![t] = [state |-> "null", data |-> <<>>]]
                /\ UNCHANGED xmp
                /\ pc' = [pc EXCEPT ![t] = "respond"]
           ELSE IF ~(parsed /\ HasXmpPacket(fs[tmpfile[t]]))
           THEN /\ xf' = [xf EXCEPT ![t] = [state |-> "freed", data |-> fs[tmpfile[t]]]]
                /\ xmp' = [xmp EXCEPT ![t] = [state |-> "null", packet |-> 0]]
                /\ pc' = [pc EXCEPT ![t] = "respond"]
           ELSE /\ xf' = [xf EXCEPT ![t] = [state |-> "open", data |-> fs[tmpfile[t]]]]
                /\ xmp' = [xmp EXCEPT ![t] =
                       [state |-> "open", packet |-> fs[tmpfile[t]][2]]]
                /\ pc' = [pc EXCEPT ![t] = "check_type"]
    /\ UNCHANGED <<request, basename, obj, tests, tmpfile, tf, response,
                   fs, staged, termCalls, crashed, started, received, terms, probe>>

\* the container test without its break: any container goes on to the tests
CheckTypeNoBreak(t) ==
    /\ ~crashed
    /\ pc[t] = "check_type"
    /\ pc' = [pc EXCEPT ![t] = "run_tests"]
    /\ trace' = [trace EXCEPT ![t] = Append(@, "xmp_files_get_file_info")]
    /\ UNCHANGED <<request, basename, obj, tests, tmpfile, tf, xf, xmp, response,
                   fs, staged, initCalls, termCalls, crashed, started, received, inits, terms, probe>>

\* xmp_files_get_file_info and the JPEG test
CheckType(t) ==
    /\ ~crashed
    /\ pc[t] = "check_type"
    /\ pc' = [pc EXCEPT ![t] =
            IF FileType(xf[t].data) # XMP_FT_JPEG THEN "respond" ELSE "run_tests"]
    /\ trace' = [trace EXCEPT ![t] = Append(@, "xmp_files_get_file_info")]
    /\ UNCHANGED <<request, basename, obj, tests, tmpfile, tf, xf, xmp, response,
                   fs, staged, initCalls, termCalls, crashed, started, received, inits, terms, probe>>

\* the two tests.set calls in the other order
TestsObjSwapped(x) ==
    Set(Set(<<>>, "create_modify_mismatch", BoolValue(is_modifiedDate_dissimilar(x))),
        "creator_tool_is_photoshop", BoolValue(is_creator_photoshop(x)))

\* is_valid true, the two tests, xmp_free, xmp_terminate, the tests key
TestsObj(x) ==
    Set(Set(<<>>, "creator_tool_is_photoshop", BoolValue(is_creator_photoshop(x))),
        "create_modify_mismatch", BoolValue(is_modifiedDate_dissimilar(x)))

\* the success path without the final obj.set("tests", tests)
RunTestsNoTestsKey(t) ==
    /\ ~crashed
    /\ pc[t] = "run_tests"
    /\ tests' = [tests EXCEPT ![t] = TestsObj(XmpPacket(xmp[t].packet))]
    /\ obj' = [obj EXCEPT ![t] = Set(obj[t], "is_valid", BoolValue(TRUE))]
    /\ xmp' = [xmp EXCEPT ![t].state = "freed"]
    /\ termCalls' = termCalls + 1
    /\ terms' = [terms EXCEPT ![t] = @ + 1]
    /\ pc' = [pc EXCEPT ![t] = "respond"]
    /\ trace' = [trace EXCEPT ![t] = @ \o <<"is_creator_photoshop", "is_modifiedDate_dissimilar",
                                          "xmp_free", "xmp_terminate">>]
    /\ UNCHANGED <<request, basename, tmpfile, tf, xf, response,
                   fs, staged, initCalls, crashed, started, received, inits, probe>>

RunTests(t) ==
    /\ ~crashed
    /\ pc[t] = "run_tests"
    /\ tests' = [tests EXCEPT ![t] = TestsObj(XmpPacket(xmp[t].packet))]
    /\ obj' = [obj EXCEPT ![t] =
            Set(Set(obj[t], "is_valid", BoolValue(TRUE)),
                "tests", ObjectValue(TestsObj(XmpPacket(xmp[t].packet))))]
    /\ xmp' = [xmp EXCEPT ![t].state = "freed"]
    /\ termCalls' = termCalls + 1
    /\ terms' = [terms EXCEPT ![t] = @ + 1]
    /\ pc' = [pc EXCEPT ![t] = "respond"]
    /\ trace' = [trace EXCEPT ![t] = @ \o <<"is_creator_photoshop", "is_modifiedDate_dissimilar",
                                          "xmp_free", "xmp_terminate">>]
    /\ UNCHANGED <<request, basename, tmpfile, tf, xf, response,
                   fs, staged, initCalls, crashed, started, received, inits, probe>>

\* obj.stringify(response.send(), 2)
Respond(t) ==
    /\ ~crashed
    /\ pc[t] = "respond"
    /\ response' = [response EXCEPT ![t].sent = TRUE, ![t].body = stringify(obj[t])]
    /\ pc' = [pc EXCEPT ![t] = "done"]
    /\ trace' = [trace EXCEPT ![t] = Append(@, "send")]
    /\ UNCHANGED <<request, basename, obj, tests, tmpfile, tf, xf, xmp,
                   fs, staged, initCalls, termCalls, crashed, started, received, inits, terms, probe>>

Next ==
    \E t \in Threads :
        \/ Begin(t)
        \/ MktempOk(t)
        \/ MktempFail(t)
        \/ Fopen(t)
        \/ Stage(t)
        \/ StageNull(t)
        \/ Extract(t)
        \/ CheckType(t)
        \/ RunTests(t)
        \/ Respond(t)

Spec == Init /\ [][Next]_vars


\* the server's threads keep running a handler that has a step to take; when
\* a new request arrives is up to the clients
Handle(t) ==
    \/ MktempOk(t)
    \/ MktempFail(t)
    \/ Fopen(t)
    \/ Stage(t)
    \/ StageNull(t)
    \/ Extract(t)
    \/ CheckType(t)
    \/ RunTests(t)
    \/ Respond(t)

LiveSpec == Init /\ [][Next]_vars /\ \A t \in Threads : WF_vars(Handle(t))

\* ------------------------------------------- the helper functions on their own
\* Direct calls of validateRequest, of the filename checks inside it and of
\* the two tests, on inputs wider than the ones the workers draw; one call
\* in each behaviour.
MaxNameLen == 2

NameChars == {97, 122, 65, 90, 48, 57, 95, 45, 46, 47, 32, 64, 91, 96, 123, 58, 233}

Pad(n, c) == [i \in 1..n |-> c]

ProbeNames ==
    UNION { [1..n -> NameChars] : n \in 1..MaxNameLen }
        \cup { Pad(maxFilenameSize, 97), Pad(maxFilenameSize + 1, 97),
               Pad(maxFilenameSize - 1, 97) \o <<47>>,
               Pad(maxFilenameSize - 1, 97) \o <<46>> }

ProbeRequests ==
    [segments : PathSegmentSets \cup { <<Pad(maxFilenameSize, 97)>> },
     contentLength : { UNKNOWN_CONTENT_LENGTH, -2, 0, maxImageSize - 1, maxImageSize,
                       maxImageSize + 1, 2147483647 },
     contentType : { FormUrlEncoded, MultipartFormData, "" }]

CreatedDates ==
    { Date(2021, 3, 4, 5, 6, 7, 0, 0), Date(2021, 3, 4, 5, 6, 7, 1, 9),
      Date(2020, 4, 5, 6, 7, 8, 0, 0) }

ModifiedDates ==
    { Date(y, mo, d, h, mi, sec, tz, ns) :
        y \in {2020, 2021}, mo \in {3, 4}, d \in {4, 5}, h \in {5, 6},
        mi \in {6, 7}, sec \in {7, 8}, tz \in {0, 1}, ns \in {0, 9} }

\* "Adobe Photoshop 24.0" with the character at position k replaced by 'X'
Photoshop24 == AdobePhotoshopPrefix \o <<50, 52, 46, 48>>

CreatorValues ==
    { Photoshop24, AdobePhotoshopPrefix, SubSeq(AdobePhotoshopPrefix, 1, 15),
      <<>>, <<71, 73, 77, 80>>, <<32>> \o AdobePhotoshopPrefix }
        \cup { [Photoshop24 EXCEPT ![k] = 88] : k \in 1..Len(Photoshop24) }

WorkersUnchanged ==
    UNCHANGED <<pc, request, basename, obj, tests, tmpfile, tf, xf, xmp, response,
                fs, staged, received, inits, terms, initCalls, termCalls, crashed,
                started, trace>>

ProbeValidate ==
    /\ probe.op = "none"
    /\ \E r \in ProbeRequests :
        probe' = [op |-> "validateRequest", request |-> r,
                  out |-> validateRequest(r, <<>>)]
    /\ WorkersUnchanged

\* the two filename tests of validateRequest, reached with a one-segment
\* path and accepted headers
ProbeFilename ==
    /\ probe.op = "none"
    /\ \E n \in ProbeNames :
        probe' = [op |-> "filename", name |-> n,
                  out |-> validateRequest(
                            [segments |-> <<n>>, contentLength |-> 0,
                             contentType |-> FormUrlEncoded], <<>>).result]
    /\ WorkersUnchanged

\* xmp_get_property_date leaves the XmpDateTime as it was when the property
\* is missing: any value
ProbeDates ==
    /\ probe.op = "none"
    /\ \E cf, mf \in BOOLEAN, c \in CreatedDates, m \in ModifiedDates :
        LET x == [creatorFound |-> FALSE, creatorTool |-> <<>>,
                  createFound |-> cf, created |-> c,
                  modifyFound |-> mf, modified |-> m]
        IN probe' = [op |-> "dates", xmp |-> x, out |-> is_modifiedDate_dissimilar(x)]
    /\ WorkersUnchanged

\* a missing CreatorTool leaves the new XmpString empty
ProbeCreator ==
    /\ probe.op = "none"
    /\ \E found \in BOOLEAN, v \in CreatorValues :
        /\ (~found => v = <<>>)
        /\ LET x == [creatorFound |-> found, creatorTool |-> v,
                     createFound |-> FALSE, created |-> Date(0, 0, 0, 0, 0, 0, 0, 0),
                     modifyFound |-> FALSE, modified |-> Date(0, 0, 0, 0, 0, 0, 0, 0)]
           IN probe' = [op |-> "creator", xmp |-> x, out |-> is_creator_photoshop(x)]
    /\ WorkersUnchanged

HelperNext == ProbeValidate \/ ProbeFilename \/ ProbeDates \/ ProbeCreator

HelperSpec == Init /\ [][HelperNext]_vars

\* ------------------------------------------------------------- properties
\* reading the response text
BodyHasKey(body, k) ==
    \E i \in 1..(Len(body) - 1) : body[i] = Quote(k) /\ body[i + 1] = ":"

BodyIsValid(body) ==
    \E i \in 1..(Len(body) - 2) :
        body[i] = Quote("is_valid") /\ body[i + 1] = ":" /\ body[i + 2] = "true"

BodyHasNonEmptyTests(body) ==
    \E i \in 1..(Len(body) - 3) :
        /\ body[i] = Quote("tests") /\ body[i + 1] = ":"
        /\ body[i + 2] = "{" /\ body[i + 3] # "}"

InvalidBody == <<"{", "\"is_valid\"", ":", "false", "}">>

InvalidBodyWithName(n) ==
    <<"{", "\"is_valid\"", ":", "false", ",", "\"name\"", ":", Quote(ToStr(n)), "}">>

\* the request's conditions, stated on its fields
AllowedChars == (65..90) \cup (97..122) \cup (48..57) \cup {95, 45, 46}

SegmentAccepted(r) ==
    /\ Len(r.segments) = 1
    /\ \A i \in 1..Len(r.segments[1]) : r.segments[1][i] \in AllowedChars
    /\ Len(r.segments[1]) <= 64

LengthAccepted(r) ==
    r.contentLength # -1 /\ r.contentLength <= 128 * 1024 * 1024

TypeAccepted(r) == r.contentType = "application/x-www-form-urlencoded"

PassesValidator(r) == SegmentAccepted(r) /\ LengthAccepted(r) /\ TypeAccepted(r)

Responded(t) == pc[t] = "done" /\ response[t].sent

\* a step after validation failed: no temp name, the extractor could not
\* open the file, no metadata, or a container other than JPEG
FailedLater(t) ==
    \/ tmpfile[t] = NoName
    \/ xf[t].state = "null"
    \/ xmp[t].state = "null"
    \/ (xmp[t].state # "none" /\ FileType(xf[t].data) # XMP_FT_JPEG)

InFlight(t) ==
    pc[t] \in {"fopen", "stage", "extract", "check_type", "run_tests", "respond"}

\* C1: once the response has been sent, the file the request created under
\* /tmp no longer exists.
C1_NoStagedFileAfterResponse ==
    \A t \in Threads :
        Responded(t) /\ staged[t] # NoName => fs[staged[t]] = NoFile

\* C2: no two in-flight requests hold the same transient file name.
C2_NoSharedTmpfile ==
    \A t1, t2 \in Threads :
        (t1 # t2 /\ InFlight(t1) /\ InFlight(t2) /\ tmpfile[t1] # NoName)
            => tmpfile[t1] # tmpfile[t2]

\* C3: a request that called xmp_init has called xmp_terminate exactly once
\* when its response is sent, so with no request in progress the number of
\* xmp_init calls equals the number of xmp_terminate calls.
C3_InitTerminateBalanced ==
    /\ \A t \in Threads : Responded(t) /\ inits[t] > 0 => terms[t] = 1
    /\ (\A t \in Threads : pc[t] \in {"idle", "done"}) => initCalls = termCalls

\* C4: every metadata handle the request acquired has been released when the
\* response is sent.
C4_HandlesReleased ==
    \A t \in Threads :
        Responded(t) => xf[t].state # "open" /\ xmp[t].state # "open"

\* C5: a request that fails a Validator check is answered with exactly
\* {"is_valid": false}, without a name key and without a tests key.
C5_ValidatorRejectBody ==
    \A t \in Threads :
        Responded(t) /\ ~PassesValidator(request[t])
            => /\ response[t].body = InvalidBody
               /\ ~BodyHasKey(response[t].body, "name")
               /\ ~BodyHasKey(response[t].body, "tests")

C5_Witness ==
    \E t \in Threads :
        /\ Responded(t)
        /\ SegmentAccepted(request[t]) /\ LengthAccepted(request[t])
        /\ ~TypeAccepted(request[t])
        /\ response[t].body = InvalidBody

C7_NameIffSanitizedAsClaimed ==
    \A t \in Threads :
        Responded(t)
            => (BodyHasKey(response[t].body, "name") <=> SegmentAccepted(request[t]))

\* C7 amended: the name key is present exactly when validateRequest accepted
\* the request: the segment passed the filename check and the content length
\* and the content type were accepted too, whatever the later steps did.
C7_NameIffValidated ==
    \A t \in Threads :
        Responded(t)
            => (BodyHasKey(response[t].body, "name") <=> PassesValidator(request[t]))

C7_Witness ==
    \E t \in Threads :
        /\ Responded(t)
        /\ SegmentAccepted(request[t]) /\ ~LengthAccepted(request[t])
        /\ ~BodyHasKey(response[t].body, "name")

\* C8: in every response the tests mapping is present and non-empty exactly
\* when is_valid is true.
C8_TestsIffValid ==
    \A t \in Threads :
        Responded(t)
            => /\ BodyHasNonEmptyTests(response[t].body) <=> BodyIsValid(response[t].body)
               /\ BodyHasKey(response[t].body, "tests") => BodyIsValid(response[t].body)

C8_Witness ==
    \E t \in Threads :
        /\ Responded(t)
        /\ BodyIsValid(response[t].body)
        /\ BodyHasNonEmptyTests(response[t].body)

\* C9: a failed fopen of the temp name does not bring the serving process
\* down.
C9_FopenFailureIsolated ==
    (\E t \in Threads : tf[t] = "null") => ~crashed

\* C10: a request whose content length is unknown or above 128 MiB never
\* gets a temp name, a transient file, a byte read from its body or an
\* xmp_init call.
C10_RejectedBeforeStaging ==
    \A t \in Threads :
        ~LengthAccepted(request[t])
            => /\ tmpfile[t] = NoName
               /\ staged[t] = NoName
               /\ tf[t] = "none"
               /\ received[t] = <<>>
               /\ inits[t] = 0
               /\ xf[t].state = "none"

C10_Witness ==
    \E t \in Threads :
        /\ Responded(t)
        /\ SegmentAccepted(request[t]) /\ TypeAccepted(request[t])
        /\ request[t].contentLength > 128 * 1024 * 1024
        /\ response[t].body = InvalidBody


\* C11: validateRequest accepts exactly the requests with one path segment
\* that passes the filename checks, a known content length of at most
\* 134217728 and the form-urlencoded content type; the path and name checks
\* come first, so _basename is set exactly when they pass, whatever the
\* length and the type are.
C11_ValidateAccepts ==
    probe.op = "validateRequest" =>
        LET r == probe.request IN
        /\ probe.out.result <=>
                (SegmentAccepted(r) /\ LengthAccepted(r) /\ TypeAccepted(r))
        /\ probe.out.basename = (IF SegmentAccepted(r) THEN r.segments[1] ELSE <<>>)

C11_Witness ==
    /\ probe.op = "validateRequest"
    /\ probe.request.contentLength = 134217728
    /\ Len(probe.request.segments) = 1 /\ Len(probe.request.segments[1]) = 64
    /\ probe.out.result

\* C12: a name passes the filename checks exactly when each of its characters
\* is an ASCII letter, a digit, '_', '-' or '.' and it has at most 64
\* characters.
C12_FilenameAccepted ==
    probe.op = "filename" =>
        (probe.out <=>
            /\ \A i \in 1..Len(probe.name) : probe.name[i] \in AllowedChars
            /\ Len(probe.name) <= 64)

C12_Witness ==
    /\ probe.op = "filename"
    /\ Len(probe.name) = 2 /\ probe.name[1] = 90 /\ probe.name[2] = 46
    /\ probe.out

\* C13: is_modifiedDate_dissimilar is true exactly when both dates are
\* present and differ in year, month, day, hour, minute or second; the time
\* zone and the nanoseconds do not count.
SixFields == {"year", "month", "day", "hour", "minute", "second"}

C13_DateMismatch ==
    probe.op = "dates" =>
        (probe.out <=>
            /\ probe.xmp.createFound
            /\ probe.xmp.modifyFound
            /\ \E f \in SixFields : probe.xmp.created[f] # probe.xmp.modified[f])

C13_Witness ==
    /\ probe.op = "dates"
    /\ probe.xmp.createFound /\ probe.xmp.modifyFound
    /\ \A f \in SixFields : probe.xmp.created[f] = probe.xmp.modified[f]
    /\ probe.xmp.created.tzSign # probe.xmp.modified.tzSign
    /\ probe.xmp.created.nanoSecond # probe.xmp.modified.nanoSecond
    /\ ~probe.out

\* C14: is_creator_photoshop is true exactly when the CreatorTool property is
\* present and its value starts with the 16 characters "Adobe Photoshop ".
ClaimedPrefix ==
    <<65, 100, 111, 98, 101, 32, 80, 104, 111, 116, 111, 115, 104, 111, 112, 32>>

C14_CreatorPhotoshop ==
    probe.op = "creator" =>
        (probe.out <=>
            /\ probe.xmp.creatorFound
            /\ Len(probe.xmp.creatorTool) >= 16
            /\ SubSeq(probe.xmp.creatorTool, 1, 16) = ClaimedPrefix)

C14_Witness ==
    /\ probe.op = "creator"
    /\ probe.xmp.creatorFound
    /\ probe.xmp.creatorTool = ClaimedPrefix
    /\ probe.out


Count(seq, x) == Cardinality({ i \in 1..Len(seq) : seq[i] = x })

BoolTokens == {"true", "false"}

TestsText(b1, b2) ==
    <<"\"tests\"", ":", "{", "\"creator_tool_is_photoshop\"", ":", b1, ",",
      "\"create_modify_mismatch\"", ":", b2, "}">>

ValidBody(n, b1, b2) ==
    <<"{", "\"is_valid\"", ":", "true", ",", "\"name\"", ":", Quote(ToStr(n)), ",">>
        \o TestsText(b1, b2) \o <<"}">>

ObjIsValid(o) == \E i \in 1..Len(o) : o[i] = <<"is_valid", <<"true">>>>

\* C15: the verdict of a request is the verdict of its own bytes: a response
\* with is_valid true comes from a body that is itself a JPEG with a metadata
\* packet, and its tests are the tests of that packet.
C15_VerdictFromOwnInput ==
    \A t \in Threads :
        Responded(t) /\ BodyIsValid(response[t].body)
            => /\ FileType(received[t]) = XMP_FT_JPEG
               /\ HasXmpPacket(received[t])
               /\ response[t].body =
                    ValidBody(request[t].segments[1],
                        BoolValue(is_creator_photoshop(XmpPacket(received[t][2])))[1],
                        BoolValue(is_modifiedDate_dissimilar(XmpPacket(received[t][2])))[1])

\* C16: the steps run in the order VALIDATE, STAGE, EXTRACT, CHECK_TYPE,
\* RUN_TESTS, RESPOND; a step that failed is followed by RESPOND only;
\* is_valid becomes true only with the request validated, its bytes staged,
\* its metadata extracted and its container a JPEG, and stays true.
ClaimedSteps ==
    { <<"idle", "mktemp">>, <<"idle", "respond">>, <<"done", "mktemp">>,
      <<"done", "respond">>, <<"mktemp", "fopen">>, <<"mktemp", "respond">>,
      <<"fopen", "stage">>, <<"stage", "extract">>, <<"stage", "respond">>,
      <<"extract", "check_type">>, <<"extract", "respond">>,
      <<"check_type", "run_tests">>, <<"check_type", "respond">>,
      <<"run_tests", "respond">>, <<"respond", "done">> }

C16_StepOrder ==
    [][\A t \in Threads :
        /\ pc'[t] # pc[t] => <<pc[t], pc'[t]>> \in ClaimedSteps
        /\ (tf[t] = "null" /\ pc'[t] # pc[t]) => pc'[t] \in {"respond", "done"}
        /\ (ObjIsValid(obj'[t]) /\ ~ObjIsValid(obj[t]))
                => /\ PassesValidator(request[t])
                   /\ tf[t] = "closed"
                   /\ xmp[t].state = "open"
                   /\ FileType(xf[t].data) = XMP_FT_JPEG
        /\ (ObjIsValid(obj[t]) /\ pc[t] # "done") => ObjIsValid(obj'[t])
      ]_vars

\* C17: every request that is being handled is answered, once, with status
\* 200, content type application/json and a body that has the is_valid key.
C17_EveryRequestAnswered ==
    /\ [](\A t \in Threads :
            /\ Count(trace[t], "send") <= 1
            /\ Responded(t)
                => /\ Count(trace[t], "send") = 1
                   /\ response[t].status = 200
                   /\ response[t].contentType = "application/json"
                   /\ BodyHasKey(response[t].body, "is_valid"))
    /\ \A t \in Threads : (pc[t] \notin {"idle", "done"}) ~> (pc[t] = "done")

\* C18: a request that reached the tests has had each of the two tests
\* evaluated once, creator_tool_is_photoshop before create_modify_mismatch,
\* and the tests object of its response holds exactly these two keys in that
\* order.
ReachedRunTests(t) ==
    /\ Responded(t)
    /\ xmp[t].state \in {"open", "freed"}
    /\ FileType(xf[t].data) = XMP_FT_JPEG

C18_BothTestsInOrder ==
    \A t \in Threads :
        ReachedRunTests(t)
            => /\ Count(trace[t], "is_creator_photoshop") = 1
               /\ Count(trace[t], "is_modifiedDate_dissimilar") = 1
               /\ \E i \in 1..Len(trace[t]) - 1 :
                    /\ trace[t][i] = "is_creator_photoshop"
                    /\ trace[t][i + 1] = "is_modifiedDate_dissimilar"
               /\ \E i \in 1..Len(response[t].body), b1, b2 \in BoolTokens :
                    /\ response[t].body[i] = "\"tests\""
                    /\ SubSeq(response[t].body, i, Len(response[t].body))
                            = TestsText(b1, b2) \o <<"}">>

C18_Witness ==
    \E t \in Threads :
        /\ ReachedRunTests(t)
        /\ xmp[t].packet = 1
        /\ \E i \in 1..Len(response[t].body) :
            SubSeq(response[t].body, i, Len(response[t].body))
                = TestsText("true", "false") \o <<"}">>

\* C19: a request calls xmp_files_open_new at most once and
\* xmp_files_get_new_xmp at most once; a request that passed validation and
\* staged its bytes has called xmp_files_open_new exactly once when it is
\* answered, and xmp_files_get_new_xmp exactly once if the open succeeded.
C19_ExtractionOnce ==
    \A t \in Threads :
        /\ Count(trace[t], "xmp_files_open_new") <= 1
        /\ Count(trace[t], "xmp_files_get_new_xmp") <= 1
        /\ inits[t] <= 1
        /\ (Responded(t) /\ PassesValidator(request[t]) /\ tf[t] = "closed")
            => /\ Count(trace[t], "xmp_files_open_new") = 1
               /\ (xf[t].state # "null"
                    <=> Count(trace[t], "xmp_files_get_new_xmp") = 1)

C19_Witness ==
    \E t \in Threads :
        /\ Responded(t) /\ PassesValidator(request[t]) /\ tf[t] = "closed"
        /\ xf[t].state = "null"
        /\ Count(trace[t], "xmp_files_open_new") = 1
        /\ Count(trace[t], "xmp_files_get_new_xmp") = 0

====
